---- MODULE Spec2Model ----
(***************************************************************************)
(* Opt<T> of src/src/Optional.h: one raw storage slot for a T plus the     *)
(* presence flag hasValue.  The model follows a small set of containers    *)
(* through construction, the five assignment forms, the access operations  *)
(* and destruction, and keeps for every storage slot the history of the T  *)
(* instances built in it together with the number of destructor calls each *)
(* one received, so that the agreement of flag and storage is something    *)
(* the model can get wrong.                                                *)
(***************************************************************************)
EXTENDS Integers, Sequences, FiniteSets, TLC

\* ------------------------------------------------------------------ bounds
NumCont == 2          \* containers the client declares
MaxInst == 2          \* T instances the run builds in storage slots, all slots together

Cont == 1..NumCont
NoCont == 0

\* T is opaque: its values are tokens.  Raw is storage that holds no live T
\* (never constructed, or destroyed); Moved is the state T's move leaves behind.
Vals == {"A", "B"}
Raw == "raw"
Moved == "moved"
NoVal == "none"

VARIABLES
    life,       \* life[c]     : "unborn" | "alive" | "dead", the Opt object itself
    hasValue,   \* hasValue[c] : the presence flag
    value,      \* value[c]    : what the union member's bytes hold
    slot,       \* slot[c]     : one entry per T built in c's storage, its ~T() count
    eff,        \* eff[c]      : T operations the last container operation ran on c's slot
    last,       \* the last container operation and its operands
    snap,       \* snap[c]     : the value c has held untouched since a copy involved it
    script,     \* script[c]   : how far c is through  Opt<T> o{A}; o = B;  and scope exit
    ret,        \* what the last operation returned to its caller
    aborted,    \* assert() failed: the program is gone
    ndebug,     \* the build: TRUE when assert() is compiled out
    twin,       \* a second program run, used by SpecPair only
    run         \* the calls in progress and the faults so far, used by SpecSteps only

vars == <<life, hasValue, value, slot, eff, last, snap, script, ret, aborted, ndebug, twin, run>>

\* The program state as one record, so that a handler is a function on states.
Cur ==
    [life |-> life, hasValue |-> hasValue, value |-> value, slot |-> slot,
     eff |-> eff, last |-> last, snap |-> snap, script |-> script,
     ret |-> ret, aborted |-> aborted, ndebug |-> ndebug]

Becomes(s) ==
    /\ life' = s.life
    /\ hasValue' = s.hasValue
    /\ value' = s.value
    /\ slot' = s.slot
    /\ eff' = s.eff
    /\ last' = s.last
    /\ snap' = s.snap
    /\ script' = s.script
    /\ ret' = s.ret
    /\ aborted' = s.aborted
    /\ ndebug' = s.ndebug

ZeroEff == [c \in Cont |-> [ctor |-> 0, asg |-> 0, dtor |-> 0]]
NoRet == [kind |-> "none", of |-> NoCont, val |-> NoVal, flag |-> FALSE]
NoOp == [kind |-> "none", c |-> NoCont, o |-> NoCont, v |-> NoVal]
NoRun == [stack |-> <<>>, faults |-> 0]

\* Entry of a member function: nothing has run in it yet.
Enter(s, op) ==
    [s EXCEPT !.eff = ZeroEff, !.ret = NoRet, !.last = op]

\* ------------------------------------------------------ the operations of T
\* Number of live T instances in c's storage: built and not yet destroyed.
LiveIn(s, c) == Cardinality({i \in 1..Len(s.slot[c]) : s.slot[c][i] = 0})

\* new(&value) T(v)
TConstruct(s, c, v) ==
    [s EXCEPT !.slot[c] = Append(@, 0), !.value[c] = v, !.eff[c].ctor = @ + 1]

\* new(&value) T(other.value)
TCopyConstruct(s, c, o) == TConstruct(s, c, s.value[o])

\* new(&value) T(std::move(other.value))
TMoveConstruct(s, c, o) ==
    [TConstruct(s, c, s.value[o]) EXCEPT !.value[o] = Moved]

\* value = v
TAssign(s, c, v) ==
    [s EXCEPT !.value[c] = v, !.eff[c].asg = @ + 1]

\* value = other.value
TCopyAssign(s, c, o) == TAssign(s, c, s.value[o])

\* value = std::move(other.value); T's move assignment is self-assignment-safe
TMoveAssign(s, c, o) ==
    IF c = o THEN TAssign(s, c, s.value[c])
    ELSE [TAssign(s, c, s.value[o]) EXCEPT !.value[o] = Moved]

\* value.~T(): the destructor runs on the instance most recently built in the slot
TDestruct(s, c) ==
    LET n == Len(s.slot[c]) IN
    [s EXCEPT !.slot[c] = IF n = 0 THEN @ ELSE [@ EXCEPT ![n] = @ + 1],
              !.value[c] = Raw,
              !.eff[c].dtor = @ + 1]

\* ------------------------------------------------------------ Opt<T> members
\* Destroy() without its  if (hasValue)  test.
DestroyUnguarded(s, c) ==
    [TDestruct(s, c) EXCEPT !.hasValue[c] = FALSE]

Destroy(s, c) ==
    IF s.hasValue[c]
    THEN [TDestruct(s, c) EXCEPT !.hasValue[c] = FALSE]
    ELSE s

\* ~Opt() that forgets to call Destroy().
OptDtorLeaks(s, c) ==
    [s EXCEPT !.life[c] = "dead"]

\* ~Opt()
OptDtor(s, c) ==
    [Destroy(s, c) EXCEPT !.life[c] = "dead"]

\* Opt() {} with the default member initializer hasValue = false
OptDefault(s, c) ==
    [s EXCEPT !.life[c] = "alive", !.hasValue[c] = FALSE]

\* Opt(NullOpt) that sets the flag.
OptNullOptSetsFlag(s, c) ==
    [s EXCEPT !.life[c] = "alive", !.hasValue[c] = TRUE]

\* Opt(NullOpt)
OptNullOpt(s, c) ==
    [s EXCEPT !.life[c] = "alive", !.hasValue[c] = FALSE]

\* Opt(const Opt&) that moves out of the source's value instead of copying it.
OptCopySteals(s, c, o) ==
    LET s1 == [s EXCEPT !.life[c] = "alive", !.hasValue[c] = s.hasValue[o]] IN
    IF s1.hasValue[c] THEN TMoveConstruct(s1, c, o) ELSE s1

\* Opt(const Opt& other) : hasValue(other.hasValue)
OptCopy(s, c, o) ==
    LET s1 == [s EXCEPT !.life[c] = "alive", !.hasValue[c] = s.hasValue[o]] IN
    IF s1.hasValue[c] THEN TCopyConstruct(s1, c, o) ELSE s1

\* Opt(Opt&&) that forgets  other.Destroy().
OptMoveKeepsSource(s, c, o) ==
    LET s1 == [s EXCEPT !.life[c] = "alive", !.hasValue[c] = s.hasValue[o]] IN
    IF s1.hasValue[c] THEN TMoveConstruct(s1, c, o) ELSE s1

\* Opt(Opt&& other) : hasValue(other.hasValue)
OptMove(s, c, o) ==
    LET s1 == [s EXCEPT !.life[c] = "alive", !.hasValue[c] = s.hasValue[o]] IN
    IF s1.hasValue[c] THEN Destroy(TMoveConstruct(s1, c, o), o) ELSE s1

\* Opt(const T& val) : hasValue(true)
OptFromValue(s, c, v) ==
    TConstruct([s EXCEPT !.life[c] = "alive", !.hasValue[c] = TRUE], c, v)

\* Opt(T&& val) : hasValue(true)
OptFromRvalue(s, c, v) ==
    TConstruct([s EXCEPT !.life[c] = "alive", !.hasValue[c] = TRUE], c, v)

\* explicit operator bool() const
OperatorBool(s, c) ==
    [s EXCEPT !.ret = [kind |-> "bool", of |-> c, val |-> NoVal, flag |-> s.hasValue[c]]]

\* What reading through a handle to c's storage yields: the T that lives
\* there, or, when none does, whatever the bytes happen to be (r).
ReadStorage(s, c, r) == IF s.value[c] = Raw THEN r ELSE s.value[c]

\* operator* without its assert.
AssertReturnUnchecked(s, c, r, kind) ==
    [s EXCEPT !.ret = [kind |-> kind, of |-> c,
                       val |-> ReadStorage(s, c, r), flag |-> FALSE]]

\* assert(hasValue); return value;   (the body of all four operator* forms)
AssertReturn(s, c, r, kind) ==
    IF ~s.hasValue[c] /\ ~s.ndebug
    THEN [s EXCEPT !.aborted = TRUE]
    ELSE [s EXCEPT !.ret = [kind |-> kind, of |-> c,
                            val |-> ReadStorage(s, c, r), flag |-> FALSE]]

\* operator*() &
DerefLvalue(s, c, r) == AssertReturn(s, c, r, "T&")

\* operator*() const &
DerefConstLvalue(s, c, r) == AssertReturn(s, c, r, "const T&")

\* operator*() && that gives the value away: it empties the container.
DerefRvalueTakes(s, c, r) ==
    Destroy(AssertReturn(s, c, r, "T&&"), c)

\* operator*() &&
DerefRvalue(s, c, r) == AssertReturn(s, c, r, "T&&")

\* operator*() const &&
DerefConstRvalue(s, c, r) == AssertReturn(s, c, r, "const T&&")

\* operator->(): return &value;
Arrow(s, c, r) ==
    [s EXCEPT !.ret = [kind |-> "T*", of |-> c,
                       val |-> ReadStorage(s, c, r), flag |-> FALSE]]

\* operator=(U&&) that forgets  hasValue = true  after the placement new.
AssignValueNoFlag(s, c, v) ==
    IF s.hasValue[c]
    THEN TAssign(s, c, v)
    ELSE TConstruct(s, c, v)

\* operator=(U&&) that destroys and rebuilds a present value.
AssignValueRebuilds(s, c, v) ==
    [TConstruct(Destroy(s, c), c, v) EXCEPT !.hasValue[c] = TRUE]

\* operator=(U&& val)
AssignValue(s, c, v) ==
    IF s.hasValue[c]
    THEN TAssign(s, c, v)
    ELSE [TConstruct(s, c, v) EXCEPT !.hasValue[c] = TRUE]

\* operator=(const Opt&) that destroys and rebuilds a present value.
AssignCopyRebuilds(s, c, o) ==
    IF s.hasValue[o]
    THEN [TCopyConstruct(Destroy(s, c), c, o) EXCEPT !.hasValue[c] = TRUE]
    ELSE Destroy(s, c)

\* operator=(const Opt&) that returns at once when assigned to itself.
AssignCopySkipsSelf(s, c, o) ==
    IF c = o THEN s
    ELSE IF s.hasValue[o]
    THEN IF s.hasValue[c]
         THEN TCopyAssign(s, c, o)
         ELSE [TCopyConstruct(s, c, o) EXCEPT !.hasValue[c] = TRUE]
    ELSE Destroy(s, c)

\* operator=(const Opt& other)
AssignCopy(s, c, o) ==
    IF s.hasValue[o]
    THEN IF s.hasValue[c]
         THEN TCopyAssign(s, c, o)
         ELSE [TCopyConstruct(s, c, o) EXCEPT !.hasValue[c] = TRUE]
    ELSE Destroy(s, c)

\* operator=(Opt&& other)
AssignMove(s, c, o) ==
    IF s.hasValue[o]
    THEN LET s1 == IF s.hasValue[c]
                   THEN TMoveAssign(s, c, o)
                   ELSE [TMoveConstruct(s, c, o) EXCEPT !.hasValue[c] = TRUE]
         IN Destroy(s1, o)
    ELSE Destroy(s, c)

\* operator=(NullOpt)
AssignNullOpt(s, c) == Destroy(s, c)

\* operator=(std::initializer_list<std::nullptr_t>)
AssignInitList(s, c) == Destroy(s, c)

\* ------------------------------------------------------------- the client
CtorKinds == {"OptDefault", "OptNullOpt", "OptCopy", "OptMove", "OptFromValue", "OptFromRvalue"}
BinaryKinds == {"OptCopy", "OptMove", "AssignCopy", "AssignMove"}
DerefKinds == {"DerefLvalue", "DerefConstLvalue", "DerefRvalue", "DerefConstRvalue"}
ReadKinds == DerefKinds \cup {"Arrow"}
AccessKinds == ReadKinds \cup {"OperatorBool"}
MoveKinds == {"OptMove", "AssignMove"}
CopyKinds == {"OptCopy", "AssignCopy"}

RECURSIVE SumLen(_, _)
SumLen(f, n) == IF n = 0 THEN 0 ELSE Len(f[n]) + SumLen(f, n - 1)

\* T instances built so far, in all slots.
Built(s) == SumLen(s.slot, NumCont)

\* Whether the call builds a T in c's storage.
Builds(op, s) ==
    \/ op.kind \in {"OptFromValue", "OptFromRvalue"}
    \/ op.kind \in {"OptCopy", "OptMove"} /\ s.hasValue[op.o]
    \/ op.kind = "AssignValue" /\ ~s.hasValue[op.c]
    \/ op.kind \in {"AssignCopy", "AssignMove"} /\ s.hasValue[op.o] /\ ~s.hasValue[op.c]

\* The calls a well-formed client can make: members are called on objects
\* within their lifetime, constructors on objects not yet constructed, and
\* nothing runs after assert() has ended the program.
\* The run builds at most MaxInst instances.  A call that reads storage
\* carries in op.v what bytes without a live T read as; it is NoVal when the
\* call reads a live T or stops at the assert before reading.
CanApply(op, s) ==
    /\ ~s.aborted
    /\ IF op.kind \in CtorKinds THEN s.life[op.c] = "unborn" ELSE s.life[op.c] = "alive"
    /\ op.kind \in BinaryKinds => s.life[op.o] = "alive"
    /\ Builds(op, s) => Built(s) < MaxInst
    /\ op.kind \in ReadKinds =>
           op.v \in (IF s.value[op.c] = Raw /\ (s.hasValue[op.c] \/ s.ndebug \/ op.kind = "Arrow")
                     THEN Vals ELSE {NoVal})

Body(op, s) ==
    CASE op.kind = "OptDefault"       -> OptDefault(s, op.c)
      [] op.kind = "OptNullOpt"       -> OptNullOpt(s, op.c)
      [] op.kind = "OptCopy"          -> OptCopy(s, op.c, op.o)
      [] op.kind = "OptMove"          -> OptMove(s, op.c, op.o)
      [] op.kind = "OptFromValue"     -> OptFromValue(s, op.c, op.v)
      [] op.kind = "OptFromRvalue"    -> OptFromRvalue(s, op.c, op.v)
      [] op.kind = "OptDtor"          -> OptDtor(s, op.c)
      [] op.kind = "OperatorBool"     -> OperatorBool(s, op.c)
      [] op.kind = "DerefLvalue"      -> DerefLvalue(s, op.c, op.v)
      [] op.kind = "DerefConstLvalue" -> DerefConstLvalue(s, op.c, op.v)
      [] op.kind = "DerefRvalue"      -> DerefRvalue(s, op.c, op.v)
      [] op.kind = "DerefConstRvalue" -> DerefConstRvalue(s, op.c, op.v)
      [] op.kind = "Arrow"            -> Arrow(s, op.c, op.v)
      [] op.kind = "AssignValue"      -> AssignValue(s, op.c, op.v)
      [] op.kind = "AssignCopy"       -> AssignCopy(s, op.c, op.o)
      [] op.kind = "AssignMove"       -> AssignMove(s, op.c, op.o)
      [] op.kind = "AssignNullOpt"    -> AssignNullOpt(s, op.c)
      [] op.kind = "AssignInitList"   -> AssignInitList(s, op.c)

\* History kept beside the program.  snap: a copy from a present container
\* records the copied value for both sides; a later call on a container (as
\* *this of anything but an access, or as the source of a move) ends its
\* record.  script: the place of c in the sequence  Opt<T> o{A}; o = B; ~Opt().
Touched(op) ==
    (IF op.kind \in AccessKinds THEN {} ELSE {op.c})
        \cup (IF op.kind \in MoveKinds THEN {op.o} ELSE {})

NoteSnap(op, s, t) ==
    [c \in Cont |->
        IF op.kind \in CopyKinds /\ op.c # op.o /\ s.hasValue[op.o] /\ c \in {op.c, op.o}
        THEN s.value[op.o]
        ELSE IF c \in Touched(op) THEN NoVal ELSE s.snap[c]]

NoteScript(op, s, t) ==
    [c \in Cont |->
        IF c \notin {op.c, op.o} \/ (c = op.c /\ op.kind \in AccessKinds)
        THEN s.script[c]
        ELSE IF c = op.c /\ op.kind \in {"OptFromValue", "OptFromRvalue"} THEN "built"
        ELSE IF c = op.c /\ op.kind = "AssignValue" /\ s.script[c] = "built" THEN "assigned"
        ELSE IF c = op.c /\ op.kind = "OptDtor" /\ s.script[c] = "assigned" THEN "destroyed"
        ELSE "off"]

Apply(op, s) ==
    LET t == Body(op, Enter(s, op)) IN
    [t EXCEPT !.snap = NoteSnap(op, s, t), !.script = NoteScript(op, s, t)]

Unary(k, c) == [kind |-> k, c |-> c, o |-> NoCont, v |-> NoVal]
Binary(k, c, o) == [kind |-> k, c |-> c, o |-> o, v |-> NoVal]
WithVal(k, c, v) == [kind |-> k, c |-> c, o |-> NoCont, v |-> v]

DoOptDefault ==
    \E c \in Cont :
        /\ CanApply(Unary("OptDefault", c), Cur)
        /\ Becomes(Apply(Unary("OptDefault", c), Cur))
        /\ UNCHANGED <<twin, run>>

DoOptNullOpt ==
    \E c \in Cont :
        /\ CanApply(Unary("OptNullOpt", c), Cur)
        /\ Becomes(Apply(Unary("OptNullOpt", c), Cur))
        /\ UNCHANGED <<twin, run>>

DoOptCopy ==
    \E c \in Cont, o \in Cont :
        /\ CanApply(Binary("OptCopy", c, o), Cur)
        /\ Becomes(Apply(Binary("OptCopy", c, o), Cur))
        /\ UNCHANGED <<twin, run>>

DoOptMove ==
    \E c \in Cont, o \in Cont :
        /\ CanApply(Binary("OptMove", c, o), Cur)
        /\ Becomes(Apply(Binary("OptMove", c, o), Cur))
        /\ UNCHANGED <<twin, run>>

DoOptFromValue ==
    \E c \in Cont, v \in Vals :
        /\ CanApply(WithVal("OptFromValue", c, v), Cur)
        /\ Becomes(Apply(WithVal("OptFromValue", c, v), Cur))
        /\ UNCHANGED <<twin, run>>

DoOptFromRvalue ==
    \E c \in Cont, v \in Vals :
        /\ CanApply(WithVal("OptFromRvalue", c, v), Cur)
        /\ Becomes(Apply(WithVal("OptFromRvalue", c, v), Cur))
        /\ UNCHANGED <<twin, run>>

DoOptDtor ==
    \E c \in Cont :
        /\ CanApply(Unary("OptDtor", c), Cur)
        /\ Becomes(Apply(Unary("OptDtor", c), Cur))
        /\ UNCHANGED <<twin, run>>

DoOperatorBool ==
    \E c \in Cont :
        /\ CanApply(Unary("OperatorBool", c), Cur)
        /\ Becomes(Apply(Unary("OperatorBool", c), Cur))
        /\ UNCHANGED <<twin, run>>

DoDerefLvalue ==
    \E c \in Cont, r \in Vals \cup {NoVal} :
        /\ CanApply(WithVal("DerefLvalue", c, r), Cur)
        /\ Becomes(Apply(WithVal("DerefLvalue", c, r), Cur))
        /\ UNCHANGED <<twin, run>>

DoDerefConstLvalue ==
    \E c \in Cont, r \in Vals \cup {NoVal} :
        /\ CanApply(WithVal("DerefConstLvalue", c, r), Cur)
        /\ Becomes(Apply(WithVal("DerefConstLvalue", c, r), Cur))
        /\ UNCHANGED <<twin, run>>

DoDerefRvalue ==
    \E c \in Cont, r \in Vals \cup {NoVal} :
        /\ CanApply(WithVal("DerefRvalue", c, r), Cur)
        /\ Becomes(Apply(WithVal("DerefRvalue", c, r), Cur))
        /\ UNCHANGED <<twin, run>>

DoDerefConstRvalue ==
    \E c \in Cont, r \in Vals \cup {NoVal} :
        /\ CanApply(WithVal("DerefConstRvalue", c, r), Cur)
        /\ Becomes(Apply(WithVal("DerefConstRvalue", c, r), Cur))
        /\ UNCHANGED <<twin, run>>

DoArrow ==
    \E c \in Cont, r \in Vals \cup {NoVal} :
        /\ CanApply(WithVal("Arrow", c, r), Cur)
        /\ Becomes(Apply(WithVal("Arrow", c, r), Cur))
        /\ UNCHANGED <<twin, run>>

DoAssignValue ==
    \E c \in Cont, v \in Vals :
        /\ CanApply(WithVal("AssignValue", c, v), Cur)
        /\ Becomes(Apply(WithVal("AssignValue", c, v), Cur))
        /\ UNCHANGED <<twin, run>>

DoAssignCopy ==
    \E c \in Cont, o \in Cont :
        /\ CanApply(Binary("AssignCopy", c, o), Cur)
        /\ Becomes(Apply(Binary("AssignCopy", c, o), Cur))
        /\ UNCHANGED <<twin, run>>

DoAssignMove ==
    \E c \in Cont, o \in Cont :
        /\ CanApply(Binary("AssignMove", c, o), Cur)
        /\ Becomes(Apply(Binary("AssignMove", c, o), Cur))
        /\ UNCHANGED <<twin, run>>

DoAssignNullOpt ==
    \E c \in Cont :
        /\ CanApply(Unary("AssignNullOpt", c), Cur)
        /\ Becomes(Apply(Unary("AssignNullOpt", c), Cur))
        /\ UNCHANGED <<twin, run>>

DoAssignInitList ==
    \E c \in Cont :
        /\ CanApply(Unary("AssignInitList", c), Cur)
        /\ Becomes(Apply(Unary("AssignInitList", c), Cur))
        /\ UNCHANGED <<twin, run>>

InitState(nd) ==
    [life |-> [c \in Cont |-> "unborn"],
     hasValue |-> [c \in Cont |-> FALSE],
     value |-> [c \in Cont |-> Raw],
     slot |-> [c \in Cont |-> <<>>],
     eff |-> ZeroEff,
     last |-> NoOp,
     snap |-> [c \in Cont |-> NoVal],
     script |-> [c \in Cont |-> "off"],
     ret |-> NoRet,
     aborted |-> FALSE,
     ndebug |-> nd]

Init ==
    \E nd \in BOOLEAN :
        /\ life = InitState(nd).life
        /\ hasValue = InitState(nd).hasValue
        /\ value = InitState(nd).value
        /\ slot = InitState(nd).slot
        /\ eff = InitState(nd).eff
        /\ last = InitState(nd).last
        /\ snap = InitState(nd).snap
        /\ script = InitState(nd).script
        /\ ret = InitState(nd).ret
        /\ aborted = FALSE
        /\ ndebug = nd
        /\ twin = InitState(nd)
        /\ run = NoRun

Next ==
    \/ DoOptDefault
    \/ DoOptNullOpt
    \/ DoOptCopy
    \/ DoOptMove
    \/ DoOptFromValue
    \/ DoOptFromRvalue
    \/ DoOptDtor
    \/ DoOperatorBool
    \/ DoDerefLvalue
    \/ DoDerefConstLvalue
    \/ DoDerefRvalue
    \/ DoDerefConstRvalue
    \/ DoArrow
    \/ DoAssignValue
    \/ DoAssignCopy
    \/ DoAssignMove
    \/ DoAssignNullOpt
    \/ DoAssignInitList

Spec == Init /\ [][Next]_vars


\* -------------------------------------------------- two runs in lock step
\* Every well-formed call record.
Calls ==
    {Unary(k, c) : k \in {"OptDefault", "OptNullOpt", "OptDtor", "OperatorBool",
                           "AssignNullOpt", "AssignInitList"}, c \in Cont}
        \cup {Binary(k, c, o) : k \in BinaryKinds, c \in Cont, o \in Cont}
        \cup {WithVal(k, c, v) : k \in {"OptFromValue", "OptFromRvalue", "AssignValue"},
                                 c \in Cont, v \in Vals}
        \cup {WithVal(k, c, r) : k \in ReadKinds, c \in Cont, r \in Vals \cup {NoVal}}

\* The first container is declared  Opt<T> x;  in this run and
\* Opt<T> x{nopt};  in the twin run.
PairCreate ==
    /\ CanApply(Unary("OptDefault", 1), Cur)
    /\ CanApply(Unary("OptNullOpt", 1), twin)
    /\ Becomes(Apply(Unary("OptDefault", 1), Cur))
    /\ twin' = Apply(Unary("OptNullOpt", 1), twin)
    /\ UNCHANGED run

\* The same call is made in both runs.
PairStep ==
    \E op \in Calls :
        /\ op.kind \in CtorKinds => op.c # 1
        /\ CanApply(op, Cur)
        /\ CanApply(op, twin)
        /\ Becomes(Apply(op, Cur))
        /\ twin' = Apply(op, twin)
        /\ UNCHANGED run

NextPair ==
    \/ PairCreate
    \/ PairStep

SpecPair == Init /\ [][NextPair]_vars

\* ------------------------------------------- the members, one T call at a time
\* SpecSteps runs each member up to the next call into T (a constructor, an
\* assignment or the destructor of T), shows the state while T's code runs,
\* and lets that code return, throw, or call back into the container.
MaxFault == 1         \* throws and call-backs by T in one run

NoInstr == [i |-> "none", c |-> NoCont, how |-> "", o |-> NoCont, v |-> NoVal, b |-> FALSE]
ILife(c, l) == [NoInstr EXCEPT !.i = "life", !.c = c, !.how = l]
IFlag(c, b) == [NoInstr EXCEPT !.i = "flag", !.c = c, !.b = b]
IDestroy(c) == [NoInstr EXCEPT !.i = "destroy", !.c = c]
IDtor(c) == [NoInstr EXCEPT !.i = "dtor", !.c = c]
ICtor(c, how, o, v) == [NoInstr EXCEPT !.i = "ctor", !.c = c, !.how = how, !.o = o, !.v = v]
IAsg(c, how, o, v) == [NoInstr EXCEPT !.i = "asg", !.c = c, !.how = how, !.o = o, !.v = v]
IBool(c) == [NoInstr EXCEPT !.i = "bool", !.c = c]

\* Destroy(): if (hasValue) { value.~T(); hasValue = false; }
CodeDestroy(s, c) ==
    IF s.hasValue[c] THEN <<IDtor(c), IFlag(c, FALSE)>> ELSE <<>>

\* ~Opt() { Destroy(); }
CodeOptDtor(s, c) == <<IDestroy(c), ILife(c, "dead")>>

\* Opt() {} : the default member initializer, then the empty body
CodeOptDefault(s, c) == <<ILife(c, "building"), IFlag(c, FALSE), ILife(c, "alive")>>

\* Opt(NullOpt) {}
CodeOptNullOpt(s, c) == <<ILife(c, "building"), IFlag(c, FALSE), ILife(c, "alive")>>

\* Opt(const Opt& other) : hasValue(other.hasValue) { if (hasValue) new(&value) T(other.value); }
CodeOptCopy(s, c, o) ==
    <<ILife(c, "building"), IFlag(c, s.hasValue[o])>>
        \o (IF s.hasValue[o] THEN <<ICtor(c, "copy", o, NoVal)>> ELSE <<>>)
        \o <<ILife(c, "alive")>>

\* Opt(Opt&&) that empties the source before it builds from it.
CodeOptMoveDestroysFirst(s, c, o) ==
    <<ILife(c, "building"), IFlag(c, s.hasValue[o])>>
        \o (IF s.hasValue[o]
            THEN <<IDestroy(o), ICtor(c, "move", o, NoVal)>>
            ELSE <<>>)
        \o <<ILife(c, "alive")>>

\* Opt(Opt&& other) noexcept : hasValue(other.hasValue)
\*   { if (hasValue) { new(&value) T(std::move(other.value)); other.Destroy(); } }
CodeOptMove(s, c, o) ==
    <<ILife(c, "building"), IFlag(c, s.hasValue[o])>>
        \o (IF s.hasValue[o]
            THEN <<ICtor(c, "move", o, NoVal), IDestroy(o)>>
            ELSE <<>>)
        \o <<ILife(c, "alive")>>

\* Opt(const T& val) : hasValue(true) { new(&value) T(val); }
CodeOptFromValue(s, c, v) ==
    <<ILife(c, "building"), IFlag(c, TRUE), ICtor(c, "value", NoCont, v), ILife(c, "alive")>>

\* Opt(T&& val) : hasValue(true) { new(&value) T(std::move(val)); }
CodeOptFromRvalue(s, c, v) ==
    <<ILife(c, "building"), IFlag(c, TRUE), ICtor(c, "value", NoCont, v), ILife(c, "alive")>>

\* operator bool() const { return hasValue; }
CodeOperatorBool(s, c) == <<IBool(c)>>

\* operator=(U&& val)
CodeAssignValue(s, c, v) ==
    IF s.hasValue[c]
    THEN <<IAsg(c, "value", NoCont, v)>>
    ELSE <<ICtor(c, "value", NoCont, v), IFlag(c, TRUE)>>

\* operator=(const Opt& other)
CodeAssignCopy(s, c, o) ==
    IF s.hasValue[o]
    THEN IF s.hasValue[c]
         THEN <<IAsg(c, "copy", o, NoVal)>>
         ELSE <<ICtor(c, "copy", o, NoVal), IFlag(c, TRUE)>>
    ELSE <<IDestroy(c)>>

\* operator=(Opt&& other)
CodeAssignMove(s, c, o) ==
    IF s.hasValue[o]
    THEN (IF s.hasValue[c]
          THEN <<IAsg(c, "move", o, NoVal)>>
          ELSE <<ICtor(c, "move", o, NoVal), IFlag(c, TRUE)>>)
         \o <<IDestroy(o)>>
    ELSE <<IDestroy(c)>>

\* operator=(NullOpt) { Destroy(); return *this; }
CodeAssignNullOpt(s, c) == <<IDestroy(c)>>

\* operator=(std::initializer_list<std::nullptr_t>) { Destroy(); return *this; }
CodeAssignInitList(s, c) == <<IDestroy(c)>>

Code(op, s) ==
    CASE op.kind = "OptDefault"       -> CodeOptDefault(s, op.c)
      [] op.kind = "OptNullOpt"       -> CodeOptNullOpt(s, op.c)
      [] op.kind = "OptCopy"          -> CodeOptCopy(s, op.c, op.o)
      [] op.kind = "OptMove"          -> CodeOptMove(s, op.c, op.o)
      [] op.kind = "OptFromValue"     -> CodeOptFromValue(s, op.c, op.v)
      [] op.kind = "OptFromRvalue"    -> CodeOptFromRvalue(s, op.c, op.v)
      [] op.kind = "OptDtor"          -> CodeOptDtor(s, op.c)
      [] op.kind = "OperatorBool"     -> CodeOperatorBool(s, op.c)
      [] op.kind = "AssignValue"      -> CodeAssignValue(s, op.c, op.v)
      [] op.kind = "AssignCopy"       -> CodeAssignCopy(s, op.c, op.o)
      [] op.kind = "AssignMove"       -> CodeAssignMove(s, op.c, op.o)
      [] op.kind = "AssignNullOpt"    -> CodeAssignNullOpt(s, op.c)
      [] op.kind = "AssignInitList"   -> CodeAssignInitList(s, op.c)

\* The members declared noexcept: an exception that leaves one ends the
\* program in std::terminate.
NoexceptKinds == {"OptMove"}

\* Run the statements of a member up to the next call into T.  The lifetime
\* of a T ends when its destructor call starts.
RECURSIVE Exec(_, _)
Exec(s, todo) ==
    IF todo = <<>>
    THEN [s |-> s, todo |-> <<>>, cur |-> NoInstr]
    ELSE LET h == Head(todo)
             t == Tail(todo)
         IN CASE h.i = "life"    -> Exec([s EXCEPT !.life[h.c] = h.how], t)
              [] h.i = "flag"    -> Exec([s EXCEPT !.hasValue[h.c] = h.b], t)
              [] h.i = "bool"    -> Exec(OperatorBool(s, h.c), t)
              [] h.i = "destroy" -> Exec(s, CodeDestroy(s, h.c) \o t)
              [] h.i = "dtor"    -> [s |-> TDestruct(s, h.c), todo |-> t, cur |-> h]
              [] h.i \in {"ctor", "asg"} -> [s |-> s, todo |-> t, cur |-> h]

\* What the completed call into T has done.
Completed(s, h) ==
    CASE h.i = "ctor" /\ h.how = "value" -> TConstruct(s, h.c, h.v)
      [] h.i = "ctor" /\ h.how = "copy"  -> TCopyConstruct(s, h.c, h.o)
      [] h.i = "ctor" /\ h.how = "move"  -> TMoveConstruct(s, h.c, h.o)
      [] h.i = "asg" /\ h.how = "value"  -> TAssign(s, h.c, h.v)
      [] h.i = "asg" /\ h.how = "copy"   -> TCopyAssign(s, h.c, h.o)
      [] h.i = "asg" /\ h.how = "move"   -> TMoveAssign(s, h.c, h.o)
      [] h.i = "dtor"                    -> s

Top == run.stack[Len(run.stack)]
Below == SubSeq(run.stack, 1, Len(run.stack) - 1)
InT == run.stack # <<>>

\* Run frame [op, todo] on top of the frames stk; the frame stays while a
\* call into T is open and goes when the member returns.  did lists the calls
\* into T the member has completed.
Proceed(s, stk, op, todo, did, f) ==
    LET r == Exec(s, todo) IN
    /\ Becomes(r.s)
    /\ run' = [stack |-> IF r.cur = NoInstr THEN stk
                         ELSE Append(stk, [op |-> op, todo |-> r.todo, cur |-> r.cur, did |-> did]),
               faults |-> f]
    /\ UNCHANGED twin

\* The client calls a member while no other call is open.
CallOptDefault ==
    \E c \in Cont :
        /\ ~InT
        /\ CanApply(Unary("OptDefault", c), Cur)
        /\ Proceed(Enter(Cur, Unary("OptDefault", c)), <<>>, Unary("OptDefault", c),
                   Code(Unary("OptDefault", c), Cur), <<>>, run.faults)

CallOptNullOpt ==
    \E c \in Cont :
        /\ ~InT
        /\ CanApply(Unary("OptNullOpt", c), Cur)
        /\ Proceed(Enter(Cur, Unary("OptNullOpt", c)), <<>>, Unary("OptNullOpt", c),
                   Code(Unary("OptNullOpt", c), Cur), <<>>, run.faults)

CallOptCopy ==
    \E c \in Cont, o \in Cont :
        /\ ~InT
        /\ CanApply(Binary("OptCopy", c, o), Cur)
        /\ Proceed(Enter(Cur, Binary("OptCopy", c, o)), <<>>, Binary("OptCopy", c, o),
                   Code(Binary("OptCopy", c, o), Cur), <<>>, run.faults)

CallOptMove ==
    \E c \in Cont, o \in Cont :
        /\ ~InT
        /\ CanApply(Binary("OptMove", c, o), Cur)
        /\ Proceed(Enter(Cur, Binary("OptMove", c, o)), <<>>, Binary("OptMove", c, o),
                   Code(Binary("OptMove", c, o), Cur), <<>>, run.faults)

CallOptFromValue ==
    \E c \in Cont, v \in Vals :
        /\ ~InT
        /\ CanApply(WithVal("OptFromValue", c, v), Cur)
        /\ Proceed(Enter(Cur, WithVal("OptFromValue", c, v)), <<>>, WithVal("OptFromValue", c, v),
                   Code(WithVal("OptFromValue", c, v), Cur), <<>>, run.faults)

CallOptFromRvalue ==
    \E c \in Cont, v \in Vals :
        /\ ~InT
        /\ CanApply(WithVal("OptFromRvalue", c, v), Cur)
        /\ Proceed(Enter(Cur, WithVal("OptFromRvalue", c, v)), <<>>, WithVal("OptFromRvalue", c, v),
                   Code(WithVal("OptFromRvalue", c, v), Cur), <<>>, run.faults)

CallOptDtor ==
    \E c \in Cont :
        /\ ~InT
        /\ CanApply(Unary("OptDtor", c), Cur)
        /\ Proceed(Enter(Cur, Unary("OptDtor", c)), <<>>, Unary("OptDtor", c),
                   Code(Unary("OptDtor", c), Cur), <<>>, run.faults)

CallAssignValue ==
    \E c \in Cont, v \in Vals :
        /\ ~InT
        /\ CanApply(WithVal("AssignValue", c, v), Cur)
        /\ Proceed(Enter(Cur, WithVal("AssignValue", c, v)), <<>>, WithVal("AssignValue", c, v),
                   Code(WithVal("AssignValue", c, v), Cur), <<>>, run.faults)

CallAssignCopy ==
    \E c \in Cont, o \in Cont :
        /\ ~InT
        /\ CanApply(Binary("AssignCopy", c, o), Cur)
        /\ Proceed(Enter(Cur, Binary("AssignCopy", c, o)), <<>>, Binary("AssignCopy", c, o),
                   Code(Binary("AssignCopy", c, o), Cur), <<>>, run.faults)

CallAssignMove ==
    \E c \in Cont, o \in Cont :
        /\ ~InT
        /\ CanApply(Binary("AssignMove", c, o), Cur)
        /\ Proceed(Enter(Cur, Binary("AssignMove", c, o)), <<>>, Binary("AssignMove", c, o),
                   Code(Binary("AssignMove", c, o), Cur), <<>>, run.faults)

CallAssignNullOpt ==
    \E c \in Cont :
        /\ ~InT
        /\ CanApply(Unary("AssignNullOpt", c), Cur)
        /\ Proceed(Enter(Cur, Unary("AssignNullOpt", c)), <<>>, Unary("AssignNullOpt", c),
                   Code(Unary("AssignNullOpt", c), Cur), <<>>, run.faults)

CallAssignInitList ==
    \E c \in Cont :
        /\ ~InT
        /\ CanApply(Unary("AssignInitList", c), Cur)
        /\ Proceed(Enter(Cur, Unary("AssignInitList", c)), <<>>, Unary("AssignInitList", c),
                   Code(Unary("AssignInitList", c), Cur), <<>>, run.faults)

\* The open call into T returns, and the member goes on.
TReturns ==
    /\ InT
    /\ ~aborted
    /\ Proceed(Completed(Cur, Top.cur), Below, Top.op, Top.todo,
               Append(Top.did, Top.cur), run.faults)

\* The state an exception thrown by the open call into T leaves as it
\* unwinds the member f: nothing after the call runs.  A constructor left by
\* an exception has built no container; a destructor left by one has still
\* ended the container's lifetime; a noexcept member ends the program.
Unwound(s, f) ==
    [s EXCEPT !.life[f.op.c] = IF f.op.kind \in CtorKinds THEN "failed"
                               ELSE IF f.op.kind = "OptDtor" THEN "dead" ELSE @,
              !.last = f.op,
              !.aborted = f.op.kind \in NoexceptKinds,
              !.ret = [kind |-> IF f.op.kind \in NoexceptKinds THEN "terminated" ELSE "threw",
                       of |-> f.cur.c, val |-> f.cur.i, flag |-> FALSE]]

\* The open call into T throws.  A T constructor or assignment that throws
\* leaves its operands as they were.
TThrows ==
    /\ InT
    /\ ~aborted
    /\ run.faults < MaxFault
    /\ Becomes(Unwound(Cur, Top))
    /\ run' = [stack |-> Below, faults |-> run.faults + 1]
    /\ UNCHANGED twin

\* The calls T's code makes on the container it is running in.
Reentrant(c) ==
    {Unary("OperatorBool", c), Unary("AssignNullOpt", c)}

\* T's constructor, assignment or destructor calls back into its container.
Reenter ==
    /\ InT
    /\ ~aborted
    /\ run.faults < MaxFault
    /\ \E op \in Reentrant(Top.cur.c) :
          /\ CanApply(op, Cur)
          /\ Proceed(Enter(Cur, op), run.stack, op, Code(op, Cur), <<>>, run.faults + 1)

InitSteps == Init /\ ~ndebug

NextSteps ==
    \/ CallOptDefault
    \/ CallOptNullOpt
    \/ CallOptCopy
    \/ CallOptMove
    \/ CallOptFromValue
    \/ CallOptFromRvalue
    \/ CallOptDtor
    \/ CallAssignValue
    \/ CallAssignCopy
    \/ CallAssignMove
    \/ CallAssignNullOpt
    \/ CallAssignInitList
    \/ TReturns
    \/ TThrows
    \/ Reenter

SpecSteps == InitSteps /\ [][NextSteps]_vars

\* ------------------------------------------------------------------ claims
E(a, b, d) == [ctor |-> a, asg |-> b, dtor |-> d]
DestroyedLast(q) == [q EXCEPT ![Len(q)] = @ + 1]

\* C1 (invariant I1): after every operation, each container's presence flag
\* is true exactly when its storage holds exactly one live T, built and not
\* yet destroyed.
I1_FlagAgreesWithStorage ==
    \A c \in Cont : hasValue[c] <=> LiveIn(Cur, c) = 1

\* A container holds the second T built in its storage while another
\* container is already destroyed.
I1_Witness ==
    \E c \in Cont, d \in Cont :
        /\ c # d
        /\ hasValue[c] /\ slot[c] = <<1, 0>>
        /\ life[d] = "dead"

\* The steps and counts of value assignment.
ScriptCounts ==
    \A c \in Cont :
        /\ script[c] = "built" => hasValue[c] /\ slot[c] = <<0>>
        /\ script[c] = "assigned" => hasValue[c] /\ slot[c] = <<0>>
        /\ script[c] = "destroyed" => ~hasValue[c] /\ slot[c] = <<1>>

ValueAssignStep ==
    last'.kind = "AssignValue" =>
        LET c == last'.c IN
        /\ hasValue'[c]
        /\ value'[c] = last'.v
        /\ hasValue[c] => eff'[c] = E(0, 1, 0) /\ slot'[c] = slot[c]
        /\ ~hasValue[c] => eff'[c] = E(1, 0, 0) /\ slot'[c] = Append(slot[c], 0)

\* C2: value assignment on an absent container builds one T from the value
\* and makes the container present; on a present container it stays present
\* and runs exactly one T assignment, no construction and no destruction.
\* A container built present with A, assigned B and then destroyed has seen
\* one construction and one destruction of its slot in all.
C2_ValueAssignment == [][ValueAssignStep /\ ScriptCounts']_vars

\* A container built present from a value, assigned a value once and then
\* destroyed.
C2_Witness ==
    \E c \in Cont : script[c] = "destroyed" /\ life[c] = "dead"

\* A step that assigns the absent marker or {}.
EmptyAssignStep ==
    last'.kind \in {"AssignNullOpt", "AssignInitList"} =>
        LET c == last'.c IN
        /\ ~hasValue'[c]
        /\ hasValue[c] => /\ eff'[c] = E(0, 0, 1)
                          /\ slot[c][Len(slot[c])] = 0
                          /\ slot'[c] = DestroyedLast(slot[c])
        /\ ~hasValue[c] => /\ eff'[c] = E(0, 0, 0)
                           /\ slot'[c] = slot[c]
                           /\ value'[c] = value[c]
        /\ \A d \in Cont \ {c} :
              /\ hasValue'[d] = hasValue[d] /\ value'[d] = value[d]
              /\ slot'[d] = slot[d] /\ eff'[d] = E(0, 0, 0)
        /\ life' = life /\ aborted' = aborted

\* C3: assigning the absent marker or an empty brace list does the same in
\* every state: a present container has its T destroyed exactly once and
\* becomes absent, an absent container is left as it is with no destructor
\* call, so repeating the assignment changes nothing further.
C3_EmptyAssignment == [][EmptyAssignStep]_vars

\* The marker is assigned to a container that an earlier call already
\* emptied: still absent, its one T destroyed once, no destructor call now.
C3_Witness ==
    /\ last.kind \in {"AssignNullOpt", "AssignInitList"}
    /\ life[last.c] = "alive" /\ ~hasValue[last.c]
    /\ slot[last.c] = <<1>>
    /\ eff[last.c] = E(0, 0, 0)

\* A step of operator=(const Opt&) or operator=(Opt&&) between two containers.
ContainerAssignStep ==
    (last'.kind \in {"AssignCopy", "AssignMove"} /\ last'.c # last'.o) =>
        LET c == last'.c
            o == last'.o
        IN
        /\ hasValue'[c] = hasValue[o]
        /\ hasValue[o] => value'[c] = value[o]
        /\ (~hasValue[c] /\ hasValue[o]) =>
              eff'[c] = E(1, 0, 0) /\ slot'[c] = Append(slot[c], 0)
        /\ (hasValue[c] /\ hasValue[o]) =>
              eff'[c] = E(0, 1, 0) /\ slot'[c] = slot[c]
        /\ (~hasValue[c] /\ ~hasValue[o]) =>
              /\ eff' = ZeroEff /\ slot' = slot
              /\ value' = value /\ hasValue' = hasValue
        /\ (hasValue[c] /\ ~hasValue[o]) =>
              eff'[c] = E(0, 0, 1) /\ slot'[c] = DestroyedLast(slot[c])

\* C4: copy and move assignment between two distinct containers follow the
\* four-case table, and the destination ends with the source's presence and,
\* when present, the source's value.
C4_ContainerAssignment == [][ContainerAssignStep]_vars

\* A present container was move-assigned from another present container.
C4_Witness ==
    /\ last.kind = "AssignMove" /\ last.c # last.o
    /\ eff[last.c] = E(0, 1, 0)
    /\ hasValue[last.c] /\ value[last.c] \in Vals

\* A step that moves from another container.
MoveStep ==
    (last'.kind \in MoveKinds /\ last'.c # last'.o) =>
        LET c == last'.c
            o == last'.o
        IN
        IF hasValue[o]
        THEN /\ hasValue'[c] /\ value'[c] = value[o]
             /\ ~hasValue'[o]
             /\ eff'[o] = E(0, 0, 1)
             /\ slot[o][Len(slot[o])] = 0
             /\ slot'[o] = DestroyedLast(slot[o])
             /\ \A d \in Cont \ {c, o} :
                    hasValue'[d] = hasValue[d] /\ value'[d] = value[d]
        ELSE /\ ~hasValue'[o]
             /\ eff'[o] = E(0, 0, 0)
             /\ slot'[o] = slot[o]

\* C5: a move from a distinct present source leaves the destination present
\* with the source's value and the source absent, its instance destroyed
\* exactly once; a move from an absent source leaves the source absent.
C5_MoveTransfer == [][MoveStep]_vars

\* A container was move-constructed from a present one.
C5_Witness ==
    /\ last.kind = "OptMove"
    /\ hasValue[last.c] /\ value[last.c] \in Vals
    /\ ~hasValue[last.o] /\ eff[last.o] = E(0, 0, 1)

\* The record of copies, and a step that copies.
SnapHolds ==
    \A c \in Cont :
        snap[c] # NoVal => hasValue[c] /\ value[c] = snap[c] /\ LiveIn(Cur, c) = 1

CopyStep ==
    (last'.kind \in CopyKinds /\ last'.c # last'.o /\ hasValue[last'.o]) =>
        LET c == last'.c
            o == last'.o
        IN
        /\ hasValue'[o] /\ value'[o] = value[o] /\ slot'[o] = slot[o]
        /\ hasValue'[c] /\ value'[c] = value[o]
        /\ snap'[c] = value[o] /\ snap'[o] = value[o]

\* C6: a copy from a present container leaves the source as it was and the
\* destination present with an equal value, and afterwards whatever is done
\* to one of the two leaves the other's presence and value alone.
C6_CopyIndependence == [][CopyStep /\ SnapHolds']_vars

\* One side of a copy has since been emptied; the other still holds the
\* copied value.
C6_Witness ==
    \E c \in Cont, d \in Cont :
        /\ c # d
        /\ snap[d] \in Vals /\ snap[c] = NoVal
        /\ last.kind \in {"AssignNullOpt", "AssignInitList", "OptDtor"}
        /\ last.c = c /\ eff[c] = E(0, 0, 1)

\* C7: every T built in a storage slot is destroyed at most once, an
\* instance that another has replaced in its slot is destroyed, and once
\* the container's destructor has run every instance of its slot has been
\* destroyed exactly once.
C7_ExactlyOnceDestruction ==
    \A c \in Cont :
        \A i \in 1..Len(slot[c]) :
            /\ slot[c][i] <= 1
            /\ (i < Len(slot[c]) \/ life[c] = "dead") => slot[c][i] = 1

\* All containers are destroyed after the run built all the instances it may.
C7_Witness ==
    /\ \A c \in Cont : life[c] = "dead"
    /\ Built(Cur) = MaxInst

\* What a client can observe of a run.
Observable(s) ==
    [life |-> s.life, hasValue |-> s.hasValue, value |-> s.value, slot |-> s.slot,
     eff |-> s.eff, ret |-> s.ret, aborted |-> s.aborted]

\* C8: a default-constructed container and one constructed from the absent
\* marker are both absent, and under the same calls the two runs agree on
\* presence, value, every T construction, assignment and destruction, and
\* every result.
C8_DefaultEqualsNullOpt ==
    /\ Observable(Cur) = Observable(twin)
    /\ (last.kind = "OptDefault" /\ last.c = 1) =>
           /\ twin.last.kind = "OptNullOpt"
           /\ ~hasValue[1] /\ ~twin.hasValue[1]

\* The pair has been through assign, empty and assign again.
C8_Witness ==
    /\ life[1] = "alive" /\ twin.life[1] = "alive"
    /\ hasValue[1] /\ slot[1] = <<1, 0>>
    /\ twin.hasValue[1] /\ twin.slot[1] = <<1, 0>>
    /\ last.kind = "AssignValue" /\ last.c = 1

\* A step that accesses a present container.
AccessStep ==
    (last'.kind \in AccessKinds /\ hasValue[last'.c]) =>
        LET c == last'.c IN
        /\ hasValue' = hasValue /\ value' = value /\ slot' = slot /\ life' = life
        /\ eff' = ZeroEff
        /\ ~aborted'
        /\ ret'.kind # "none" /\ ret'.of = c
        /\ last'.kind = "OperatorBool" => ret'.flag
        /\ last'.kind \in ReadKinds => ret'.val = value[c]

\* C9: on a present container the presence query, the four dereference
\* forms and operator-> return the stored value (the query: true) and leave
\* the flag, the value and the slot as they are: no T is built or destroyed.
C9_AccessIsReadOnly == [][AccessStep]_vars

\* The ownership-transferring form was used on a present container.
C9_Witness ==
    /\ last.kind = "DerefRvalue"
    /\ ret.kind = "T&&" /\ ret.val \in Vals
    /\ hasValue[last.c]

\* A step that accesses an absent container.
AbsentAccessStep ==
    /\ (last'.kind \in DerefKinds /\ ~hasValue[last'.c] /\ ~ndebug) =>
           aborted' /\ ret' = NoRet
    /\ (last'.kind = "Arrow" /\ ~hasValue[last'.c]) =>
           ~aborted' /\ ret'.kind = "T*" /\ ret'.of = last'.c

\* C10: in a checked build each of the four dereference forms on an absent
\* container ends in the assertion failure and returns nothing; operator->
\* on an absent container checks nothing and returns the storage address.
C10_AbsentAccess == [][AbsentAccessStep]_vars

\* A checked build has stopped at the assertion in operator*() const &&.
C10_Witness ==
    /\ aborted /\ ~ndebug
    /\ last.kind = "DerefConstRvalue"
    /\ ~hasValue[last.c] /\ ret = NoRet

\* -------------------------------------------------- claims on failing T
\* The open calls into T, outermost first.
Open == {run.stack[i] : i \in 1..Len(run.stack)}

\* The call into T that failed, when the failure has reached the client.
Failed(what) ==
    /\ ~InT
    /\ ret.kind \in {"threw", "terminated"}
    /\ ret.val = what

\* C11: in every operation that builds a T in storage the presence flag
\* becomes true only after T's constructor has returned: it is false while
\* the constructor runs, and false when the constructor has failed.
C11_FlagOnlyAfterConstruction ==
    /\ \A f \in Open : f.cur.i = "ctor" => ~hasValue[f.cur.c]
    /\ Failed("ctor") => ~hasValue[ret.of]

\* The assignment forms.
FailedAssignment ==
    /\ Failed("ctor") \/ Failed("asg") \/ Failed("dtor")
    /\ last.kind \in {"AssignValue", "AssignCopy", "AssignMove", "AssignNullOpt", "AssignInitList"}

\* C12: when a T constructor, assignment or destructor called by an
\* assignment form (or by its emptying step) throws and the exception has
\* reached the caller, the flag of each container involved is true exactly
\* when its storage holds a live T.
C12_FlagAgreesAfterFailure ==
    FailedAssignment =>
        \A c \in ({last.c, last.o} \ {NoCont}) :
            hasValue[c] <=> (LiveIn(Cur, c) = 1)

\* C13: a failure raised by T's constructor, assignment or destructor
\* inside any container operation, move-construction included, reaches the
\* operation's caller as the exception T threw; the container never turns it
\* into program termination.
C13_ExceptionNeutral ==
    \A what \in {"ctor", "asg", "dtor"} :
        Failed(what) => (ret.kind = "threw" /\ ~aborted)

\* C14: whenever T's constructor, assignment or destructor is running
\* inside a container operation, the flag of every container is true
\* exactly when its storage holds a live T, and no instance has been
\* destroyed twice.
C14_FlagAgreesInsideT ==
    InT =>
        \A c \in Cont :
            /\ hasValue[c] <=> (LiveIn(Cur, c) = 1)
            /\ \A i \in 1..Len(slot[c]) : slot[c][i] <= 1

\* The open calls into T made by a move from a distinct source.
MoveFrames == {f \in Open : f.op.kind \in MoveKinds /\ f.op.c # f.op.o}

\* h is the step of f that builds or assigns the destination from the source.
DestStep(f, h) ==
    /\ h.i \in {"ctor", "asg"} /\ h.how = "move"
    /\ h.c = f.op.c /\ h.o = f.op.o

\* The members are at steps that keep the order: while the destination is
\* being built or assigned from the source, the source's flag is set and the
\* member has called no destructor yet; the member is in the source's
\* destructor only when the destination's step has completed.
SourceKept ==
    \A f \in MoveFrames :
        /\ DestStep(f, f.cur) => (hasValue[f.op.o] /\ f.did = <<>>)
        /\ (f.cur.i = "dtor" /\ f.cur.c = f.op.o) =>
               \E i \in 1..Len(f.did) : DestStep(f, f.did[i])

\* The step leaves the flag, the value and the instance of o as they are.
Untouched(o) ==
    /\ hasValue'[o] = hasValue[o]
    /\ value'[o] = value[o]
    /\ slot'[o] = slot[o]

MoveOrderStep ==
    /\ SourceKept'
    \* from the call to the destination's step
    /\ (~InT /\ InT' /\ Top' \in MoveFrames' /\ DestStep(Top', Top'.cur)) =>
           Untouched(Top'.op.o)
    \* while the destination's step runs, and when it fails
    /\ \A f \in MoveFrames :
           (DestStep(f, f.cur) /\ (f # Top \/ run'.faults # run.faults)) =>
               (Untouched(f.op.o) /\ hasValue'[f.op.o])

\* C15: in move-construction and move-assignment from a distinct present
\* source, the source stays present, with its instance and value untouched,
\* from the call until the destination's construction or in-place
\* assignment from it has completed; T's destructor is called on the source
\* only after that step has completed; and when that step fails the source
\* is still present.
C15_MoveTransferOrdering == [][MoveOrderStep]_vars

\* A move assignment has assigned the destination in place and is now in
\* the destructor of the source's instance.
C15_Witness ==
    \E f \in MoveFrames :
        /\ f.op.kind = "AssignMove"
        /\ f.cur.i = "dtor" /\ f.cur.c = f.op.o
        /\ Len(f.did) = 1 /\ f.did[1].i = "asg"
        /\ hasValue[f.op.c] /\ value[f.op.c] \in Vals

\* A step that copy-assigns a container to itself.
CopySelfAssignStep ==
    (last'.kind = "AssignCopy" /\ last'.c = last'.o) =>
        LET c == last'.c IN
        /\ hasValue' = hasValue /\ slot' = slot /\ value' = value /\ life' = life
        /\ ~aborted'
        /\ eff' = [ZeroEff EXCEPT ![c] = IF hasValue[c] THEN E(0, 1, 0) ELSE E(0, 0, 0)]

\* C16: x = x on a present container is exactly one in-place assignment of
\* T, with no construction and no destruction, and x stays present with its
\* value; on an absent container it does nothing and x stays absent.
C16_CopySelfAssignment == [][CopySelfAssignStep]_vars

\* A present container has been copy-assigned to itself.
C16_Witness ==
    /\ last.kind = "AssignCopy" /\ last.c = last.o
    /\ hasValue[last.c] /\ value[last.c] \in Vals
    /\ eff[last.c] = E(0, 1, 0)

\* A step that move-assigns a present container to itself.
MoveSelfAssignStep ==
    (last'.kind = "AssignMove" /\ last'.c = last'.o /\ hasValue[last'.c]) =>
        LET c == last'.c IN
        /\ hasValue'[c]
        /\ value'[c] = value[c]
        /\ slot'[c] = slot[c]
        /\ eff'[c] = E(0, 1, 0)

\* C17: x = std::move(x) on a present container is just one in-place
\* self-assignment of T: afterwards x is present and holds its value, and
\* the contained instance has not been destroyed.
C17_MoveSelfAssignment == [][MoveSelfAssignStep]_vars

====
